---- MODULE Spec2Model ----
(***************************************************************************)
(* Model of the habit-tracking REST API: apps/habits/serializers.py and    *)
(* apps/habits/views.py.  The two tables (Habit, HabitEntry) are the       *)
(* state; every viewset handler is a pure operator from (store, clock,     *)
(* request) to (store, status) and an action that applies it.              *)
(***************************************************************************)
EXTENDS Integers, Sequences, FiniteSets, TLC

VARIABLES habits, entries, creator, nextHabitId, nextEntryId, now, response

vars == <<habits, entries, creator, nextHabitId, nextEntryId, now, response>>

(* ------------------------------ bounds -------------------------------- *)
MaxHabits == 2
MaxEntries == 1
MaxTime == 1

(* ------------------------------ inputs -------------------------------- *)
Users == {"alice", "bob"}
SINGULAR == "SINGULAR"
TIMED == "TIMED"
HabitTypes == {SINGULAR, TIMED}
None == <<>>
Dates == {1, 2}
Values == {0, 1, 2}

ValidNames == {<<"R", "u", "n">>}
NameInputs == ValidNames \cup {<<"A", "b">>, <<>>}
TypeInputs == HabitTypes \cup {"WEEKLY"}
FutureTime == MaxTime + 1
ArchivedAtInputs == {None, <<FutureTime>>}
HabitIdInputs == 1..MaxHabits
EntryIdInputs == 1..MaxEntries

ArchivedParams ==
    { <<"t", "r", "u", "e">>, <<"T", "R", "U", "E">>, <<"1">>,
      <<"f", "a", "l", "s", "e">>, <<"F", "a", "l", "s", "e">>, <<"0">>,
      <<"y", "e", "s">>, <<>> }
HabitQueryParams == {<<>>} \cup [archived : ArchivedParams]

EntryQueryParams ==
    { <<>>, [habit_id |-> <<"x">>], [habit_id |-> <<>>],
      [start_date |-> 2], [end_date |-> 1],
      [start_date |-> 2, end_date |-> 1], [habit_id |-> <<"2">>, date |-> 2] }
(* query strings sent along with a single-object request *)
DetailQueryParams == {<<>>, [habit_id |-> <<"2">>]}

(* Request bodies: complete ones carry every required field, partial    *)
(* ones any subset.  "user" is a client-supplied owner, archived_at a    *)
(* client-supplied timestamp.                                            *)
EntryCompletePayloads ==
    [habit : HabitIdInputs, entry_date : Dates, value : Values]
      \cup [habit : HabitIdInputs, entry_date : {1}, value : {1}, user : Users]
EntryPartialPayloads ==
    {<<>>} \cup [habit : HabitIdInputs] \cup [entry_date : Dates] \cup [value : Values]
      \cup [user : Users] \cup [habit : HabitIdInputs, value : Values]

HabitCompletePayloads ==
    [name : ValidNames, type : TypeInputs]
      \cup [name : NameInputs, type : {SINGULAR}]
      \cup [name : ValidNames, type : HabitTypes, archived_at : {<<FutureTime>>}]
HabitPartialPayloads ==
    {<<>>} \cup [name : NameInputs] \cup [type : TypeInputs]
      \cup [archived_at : ArchivedAtInputs]
HabitPayloads == HabitCompletePayloads \cup HabitPartialPayloads
HabitPutPayloads == HabitCompletePayloads \cup {<<>>}

(* dict.get(key, default) *)
Get(d, k, default) == IF k \in DOMAIN d THEN d[k] ELSE default

(* ------------------------- the store as a value ----------------------- *)
Store ==
    [habits |-> habits, entries |-> entries, creator |-> creator,
     nextHabitId |-> nextHabitId, nextEntryId |-> nextEntryId]

Result(s, status) == [store |-> s, status |-> status]

Put(f, k, v) == [x \in (DOMAIN f) \cup {k} |-> IF x = k THEN v ELSE f[x]]
Drop(f, ks) == [x \in (DOMAIN f) \ ks |-> f[x]]

(* Model.save() on a Habit row: updated_at is server-managed and is set  *)
(* to the clock on every save.                                           *)
SaveHabit(s, id, row, t) ==
    [s EXCEPT !.habits = Put(s.habits, id, [row EXCEPT !.updated_at = t])]

(* Model.save() on a HabitEntry row: the row is written under its key;  *)
(* the table carries no uniqueness rule over (habit, entry_date).        *)
SaveEntry(s, id, row) == [s EXCEPT !.entries = Put(s.entries, id, row)]

(* --------------------------- str.lower() ------------------------------ *)
LowerChar(c) ==
    CASE c = "T" -> "t" [] c = "R" -> "r" [] c = "U" -> "u" [] c = "E" -> "e"
      [] c = "F" -> "f" [] c = "A" -> "a" [] c = "L" -> "l" [] c = "S" -> "s"
      [] c = "Y" -> "y" [] OTHER -> c
Lower(str) == [i \in 1..Len(str) |-> LowerChar(str[i])]

(* -------------------------- order_by("name") -------------------------- *)
Alphabet == <<"A", "R", "b", "n", "u">>
Ord(c) == CHOOSE i \in 1..Len(Alphabet) : Alphabet[i] = c
RECURSIVE StrLeq(_, _)
StrLeq(a, b) ==
    IF a = <<>> THEN TRUE
    ELSE IF b = <<>> THEN FALSE
    ELSE IF Ord(Head(a)) < Ord(Head(b)) THEN TRUE
    ELSE IF Ord(Head(a)) > Ord(Head(b)) THEN FALSE
    ELSE StrLeq(Tail(a), Tail(b))

Orderings(S) ==
    {f \in [1..Cardinality(S) -> S] : \A i, j \in 1..Cardinality(S) : f[i] = f[j] => i = j}

(* ---------------------------- IsOwner --------------------------------- *)
IsOwner(obj, u) == obj.user = u

(* ------------------- HabitSerializer.validate_name -------------------- *)
validate_name(value) ==
    IF value = <<>> THEN FALSE
    ELSE IF Len(value) < 3 THEN FALSE
    ELSE TRUE

(* HabitSerializer.is_valid: name and type are required unless partial,   *)
(* type is one of the enum's choices, archived_at is an optional,         *)
(* writable, nullable timestamp (it is not among read_only_fields).        *)
HabitSerializerValid(data, partial) ==
    /\ (~partial) => {"name", "type"} \subseteq DOMAIN data
    /\ "name" \in DOMAIN data => validate_name(data.name)
    /\ "type" \in DOMAIN data => data.type \in HabitTypes

(* ----------------------- HabitViewSet.get_queryset -------------------- *)
(* variant: the queryset is not restricted to the caller's rows *)
HabitQueryset_AnyOwner(s, u, action, qp) ==
    LET mine == DOMAIN s.habits
        active == {id \in mine : s.habits[id].archived_at = None}
        archived == {id \in mine : s.habits[id].archived_at # None}
    IN  IF action = "list"
        THEN IF "archived" \in DOMAIN qp
             THEN IF Lower(qp.archived) \in {<<"t", "r", "u", "e">>, <<"1">>}
                  THEN archived
                  ELSE IF Lower(qp.archived) \in {<<"f", "a", "l", "s", "e">>, <<"0">>}
                       THEN active
                       ELSE mine
             ELSE active
        ELSE mine

(* variant: the archived option is compared without lower() *)
HabitQueryset_CaseSensitive(s, u, action, qp) ==
    LET mine == {id \in DOMAIN s.habits : s.habits[id].user = u}
        active == {id \in mine : s.habits[id].archived_at = None}
        archived == {id \in mine : s.habits[id].archived_at # None}
    IN  IF action = "list"
        THEN IF "archived" \in DOMAIN qp
             THEN IF qp.archived \in {<<"t", "r", "u", "e">>, <<"1">>}
                  THEN archived
                  ELSE IF qp.archived \in {<<"f", "a", "l", "s", "e">>, <<"0">>}
                       THEN active
                       ELSE mine
             ELSE active
        ELSE mine

HabitQueryset(s, u, action, qp) ==
    LET mine == {id \in DOMAIN s.habits : s.habits[id].user = u}
        active == {id \in mine : s.habits[id].archived_at = None}
        archived == {id \in mine : s.habits[id].archived_at # None}
    IN  IF action = "list"
        THEN IF "archived" \in DOMAIN qp
             THEN IF Lower(qp.archived) \in {<<"t", "r", "u", "e">>, <<"1">>}
                  THEN archived
                  ELSE IF Lower(qp.archived) \in {<<"f", "a", "l", "s", "e">>, <<"0">>}
                       THEN active
                       ELSE mine
             ELSE active
        ELSE mine

(* GenericAPIView.get_object: 404 outside the queryset, then IsOwner. *)
HabitGetObject(s, u, action, id) ==
    IF id \notin HabitQueryset(s, u, action, <<>>) THEN "NotFound"
    ELSE IF ~IsOwner(s.habits[id], u) THEN "PermissionDenied"
    ELSE "Found"

(* ------------------------- HabitViewSet.list -------------------------- *)
HabitListBodies(s, u, qp) ==
    LET ids == HabitQueryset(s, u, "list", qp)
    IN  {f \in Orderings(ids) :
            \A i, j \in 1..Cardinality(ids) :
                i < j => StrLeq(s.habits[f[i]].name, s.habits[f[j]].name)}

(* ------------------------ HabitViewSet.create ------------------------- *)
HabitCreate(s, t, u, data) ==
    IF ~HabitSerializerValid(data, FALSE) THEN Result(s, "ValidationFailed")
    ELSE LET id == s.nextHabitId
             row == [user |-> u, name |-> data.name, type |-> data.type,
                     archived_at |-> Get(data, "archived_at", None),
                     updated_at |-> t]
         IN  Result(SaveHabit([s EXCEPT !.nextHabitId = id + 1], id, row, t),
                    "Created")

(* ------------------------ HabitViewSet.retrieve ----------------------- *)
HabitRetrieve(s, u, id) ==
    LET got == HabitGetObject(s, u, "retrieve", id)
    IN  IF got # "Found" THEN Result(s, got) ELSE Result(s, "OK")

(* ---------------- HabitViewSet.update / partial_update ---------------- *)
HabitUpdate(s, t, u, id, data, partial) ==
    LET got == HabitGetObject(s, u, IF partial THEN "partial_update" ELSE "update", id)
    IN  IF got # "Found" THEN Result(s, got)
        ELSE IF ~HabitSerializerValid(data, partial)
             THEN Result(s, "ValidationFailed")
             ELSE LET old == s.habits[id]
                      row == [old EXCEPT !.name = Get(data, "name", old.name),
                                         !.type = Get(data, "type", old.type),
                                         !.archived_at =
                                             Get(data, "archived_at", old.archived_at)]
                  IN  Result(SaveHabit(s, id, row, t), "OK")

(* ------------------------- HabitViewSet.archive ----------------------- *)
(* variant: archive stamps the clock without testing archived_at *)
HabitArchive_AlwaysStamps(s, t, u, id) ==
    LET got == HabitGetObject(s, u, "archive", id)
    IN  IF got # "Found" THEN Result(s, got)
        ELSE Result(SaveHabit(s, id, [s.habits[id] EXCEPT !.archived_at = <<t>>], t),
                    "OK")

HabitArchive(s, t, u, id) ==
    LET got == HabitGetObject(s, u, "archive", id)
    IN  IF got # "Found" THEN Result(s, got)
        ELSE IF s.habits[id].archived_at = None
             THEN Result(SaveHabit(s, id, [s.habits[id] EXCEPT !.archived_at = <<t>>], t),
                         "OK")
             ELSE Result(s, "OK")

(* ------------------------ HabitViewSet.unarchive ---------------------- *)
HabitUnarchive(s, t, u, id) ==
    LET got == HabitGetObject(s, u, "unarchive", id)
    IN  IF got # "Found" THEN Result(s, got)
        ELSE IF s.habits[id].archived_at # None
             THEN Result(SaveHabit(s, id, [s.habits[id] EXCEPT !.archived_at = None], t),
                         "OK")
             ELSE Result(s, "OK")

(* Model.delete() on a Habit row: the row is removed and the entries     *)
(* that reference it go with it.                                         *)
DeleteHabit(s, id) ==
    LET gone == {e \in DOMAIN s.entries : s.entries[e].habit = id}
    IN  [s EXCEPT !.habits = Drop(s.habits, {id}),
                  !.entries = Drop(s.entries, gone),
                  !.creator = Drop(s.creator, gone)]

(* --------------- HabitViewSet.destroy / perform_destroy --------------- *)
HabitDestroy(s, u, id) ==
    LET got == HabitGetObject(s, u, "destroy", id)
    IN  IF got # "Found" THEN Result(s, got)
        ELSE Result(DeleteHabit(s, id), "NoContent")

(* ------------------------------ int(str) ------------------------------ *)
Digits == <<"0", "1", "2", "3", "4", "5", "6", "7", "8", "9">>
IsDigit(c) == \E i \in 1..10 : Digits[i] = c
DigitValue(c) == (CHOOSE i \in 1..10 : Digits[i] = c) - 1
RECURSIVE IntOf(_)
IntOf(str) ==
    IF str = <<>> THEN 0
    ELSE 10 * IntOf(SubSeq(str, 1, Len(str) - 1)) + DigitValue(str[Len(str)])
(* int() raises ValueError on a text that is empty or holds a letter;    *)
(* the texts sent here hold digits and letters only                      *)
IntParses(str) == str # <<>> /\ \A i \in 1..Len(str) : IsDigit(str[i])

(* --------------------- HabitEntryViewSet.get_queryset ----------------- *)
EntryQueryset(s, u, qp) ==
    LET q0 == {e \in DOMAIN s.entries : s.entries[e].user = u}
        q1 == IF "habit_id" \in DOMAIN qp /\ qp.habit_id # <<>> /\ IntParses(qp.habit_id)
              THEN {e \in q0 : s.entries[e].habit = IntOf(qp.habit_id)}
              ELSE q0
        q2 == IF "start_date" \in DOMAIN qp
              THEN {e \in q1 : s.entries[e].entry_date >= qp.start_date}
              ELSE q1
        q3 == IF "end_date" \in DOMAIN qp
              THEN {e \in q2 : s.entries[e].entry_date <= qp.end_date}
              ELSE q2
    IN  IF "date" \in DOMAIN qp
        THEN {e \in q3 : s.entries[e].entry_date = qp.date}
        ELSE q3

EntryGetObject(s, u, id, qp) ==
    IF id \notin EntryQueryset(s, u, qp) THEN "NotFound"
    ELSE IF ~IsOwner(s.entries[id], u) THEN "PermissionDenied"
    ELSE "Found"

(* ----------------------- HabitEntryViewSet.list ----------------------- *)
EntryListBodies(s, u, qp) ==
    LET ids == EntryQueryset(s, u, qp)
    IN  {f \in Orderings(ids) :
            \A i, j \in 1..Cardinality(ids) :
                i < j => s.entries[f[i]].entry_date >= s.entries[f[j]].entry_date}

(* ----------------- HabitEntrySerializer.validate_habit ---------------- *)
(* variant: the archived test is missing *)
validate_habit_NoArchivedTest(habit_instance, request_user) ==
    IF habit_instance.user # request_user THEN "Forbidden" ELSE "Valid"

(* variant: the ownership test is missing *)
validate_habit_NoOwnerTest(habit_instance, request_user) ==
    IF habit_instance.archived_at # None THEN "InvalidState" ELSE "Valid"

(* variant: the two tests in the other order *)
validate_habit_ArchivedFirst(habit_instance, request_user) ==
    IF habit_instance.archived_at # None THEN "InvalidState"
    ELSE IF habit_instance.user # request_user THEN "Forbidden"
    ELSE "Valid"

validate_habit(habit_instance, request_user) ==
    IF habit_instance.user # request_user THEN "Forbidden"
    ELSE IF habit_instance.archived_at # None THEN "InvalidState"
    ELSE "Valid"

(* ------------------- HabitEntrySerializer.validate -------------------- *)
(* variant: absent fields do not fall back to the persisted row *)
validate_IgnoresInstance(s, attrs, instance) ==
    IF "habit" \in DOMAIN attrs /\ "value" \in DOMAIN attrs
    THEN IF s.habits[attrs.habit].type = SINGULAR /\ attrs.value # 1
         THEN "ValidationFailed"
         ELSE IF s.habits[attrs.habit].type = TIMED /\ attrs.value <= 0
              THEN "ValidationFailed"
              ELSE "Valid"
    ELSE "Valid"

(* attrs holds the validated fields; instance is the persisted row, or    *)
(* the empty mapping on create.  A missing habit or value is <<>>.        *)
validate(s, attrs, instance) ==
    LET habit == IF "habit" \in DOMAIN attrs THEN <<attrs.habit>>
                 ELSE IF "habit" \in DOMAIN instance THEN <<instance.habit>> ELSE <<>>
        value == IF "value" \in DOMAIN attrs THEN <<attrs.value>>
                 ELSE IF "value" \in DOMAIN instance THEN <<instance.value>> ELSE <<>>
    IN  IF habit # <<>> /\ value # <<>>
        THEN IF s.habits[habit[1]].type = SINGULAR /\ value[1] # 1
             THEN "ValidationFailed"
             ELSE IF s.habits[habit[1]].type = TIMED /\ value[1] <= 0
                  THEN "ValidationFailed"
                  ELSE "Valid"
        ELSE "Valid"

(* HabitEntrySerializer.is_valid: the habit field (primary-key lookup     *)
(* over all habits, then validate_habit), then validate.  The read-only   *)
(* user field is dropped from the input.                                  *)
EntrySerializerRun(s, u, data, instance) ==
    LET fieldCheck ==
            IF "habit" \notin DOMAIN data THEN "Valid"
            ELSE IF data.habit \notin DOMAIN s.habits THEN "ValidationFailed"
            ELSE validate_habit(s.habits[data.habit], u)
    IN  IF fieldCheck # "Valid" THEN fieldCheck
        ELSE validate(s, Drop(data, {"user"}), instance)

(* ---- HabitEntryViewSet.create / HabitEntrySerializer.create ---------- *)
EntryCreate(s, u, data) ==
    LET checked == EntrySerializerRun(s, u, data, <<>>)
    IN  IF checked # "Valid" THEN Result(s, checked)
        ELSE LET id == s.nextEntryId
                 row == [user |-> u, habit |-> data.habit,
                         entry_date |-> data.entry_date, value |-> data.value]
             IN  Result(SaveEntry([s EXCEPT !.creator = Put(s.creator, id, u),
                                            !.nextEntryId = id + 1], id, row),
                        "Created")

(* ---------------------- HabitEntryViewSet.retrieve -------------------- *)
EntryRetrieve(s, u, id, qp) ==
    LET got == EntryGetObject(s, u, id, qp)
    IN  IF got # "Found" THEN Result(s, got) ELSE Result(s, "OK")

(* -------------- HabitEntryViewSet.update / partial_update ------------- *)
EntryUpdate(s, u, id, qp, data) ==
    LET got == EntryGetObject(s, u, id, qp)
    IN  IF got # "Found" THEN Result(s, got)
        ELSE LET old == s.entries[id]
                 checked == EntrySerializerRun(s, u, data, old)
             IN  IF checked # "Valid" THEN Result(s, checked)
                 ELSE LET row == [old EXCEPT
                                    !.habit = Get(data, "habit", old.habit),
                                    !.entry_date = Get(data, "entry_date", old.entry_date),
                                    !.value = Get(data, "value", old.value)]
                      IN  Result(SaveEntry(s, id, row), "OK")

(* ---------------------- HabitEntryViewSet.destroy --------------------- *)
EntryDestroy(s, u, id, qp) ==
    LET got == EntryGetObject(s, u, id, qp)
    IN  IF got # "Found" THEN Result(s, got)
        ELSE Result([s EXCEPT !.entries = Drop(s.entries, {id}),
                              !.creator = Drop(s.creator, {id})],
                    "NoContent")

(* ============================ the actions ============================= *)
Apply(r, op, body) ==
    /\ habits' = r.store.habits
    /\ entries' = r.store.entries
    /\ creator' = r.store.creator
    /\ nextHabitId' = r.store.nextHabitId
    /\ nextEntryId' = r.store.nextEntryId
    /\ response' = [op |-> op, at |-> now, status |-> r.status, body |-> body]
    /\ UNCHANGED now

Init ==
    /\ habits = <<>>
    /\ entries = <<>>
    /\ creator = <<>>
    /\ nextHabitId = 1
    /\ nextEntryId = 1
    /\ now = 0
    /\ response = [op |-> "none", at |-> 0, status |-> "none", body |-> <<>>]

Tick ==
    /\ now < MaxTime
    /\ now' = now + 1
    /\ UNCHANGED <<habits, entries, creator, nextHabitId, nextEntryId, response>>

(* The body of a request whose target is not found is never read, so the *)
(* actions draw a body only for a target that get_object returns.        *)
DoHabitList ==
    \E u \in Users, qp \in HabitQueryParams :
        \E body \in HabitListBodies(Store, u, qp) :
            Apply(Result(Store, "OK"), "habit.list", body)

DoHabitCreate ==
    /\ nextHabitId <= MaxHabits
    /\ \E u \in Users, data \in HabitPayloads :
           Apply(HabitCreate(Store, now, u, data), "habit.create", <<>>)

DoHabitRetrieve ==
    \E u \in Users, id \in HabitIdInputs :
        Apply(HabitRetrieve(Store, u, id), "habit.retrieve", <<>>)

DoHabitUpdate ==
    \E u \in Users, id \in HabitIdInputs :
        IF HabitGetObject(Store, u, "update", id) # "Found"
        THEN Apply(HabitUpdate(Store, now, u, id, <<>>, FALSE), "habit.update", <<>>)
        ELSE \E data \in HabitPutPayloads :
                 Apply(HabitUpdate(Store, now, u, id, data, FALSE), "habit.update", <<>>)

DoHabitPartialUpdate ==
    \E u \in Users, id \in HabitIdInputs :
        IF HabitGetObject(Store, u, "partial_update", id) # "Found"
        THEN Apply(HabitUpdate(Store, now, u, id, <<>>, TRUE),
                   "habit.partial_update", <<>>)
        ELSE \E data \in HabitPartialPayloads :
                 Apply(HabitUpdate(Store, now, u, id, data, TRUE),
                       "habit.partial_update", <<>>)

DoHabitDestroy ==
    \E u \in Users, id \in HabitIdInputs :
        Apply(HabitDestroy(Store, u, id), "habit.destroy", <<>>)

DoHabitArchive ==
    \E u \in Users, id \in HabitIdInputs :
        Apply(HabitArchive(Store, now, u, id), "habit.archive", <<>>)

DoHabitUnarchive ==
    \E u \in Users, id \in HabitIdInputs :
        Apply(HabitUnarchive(Store, now, u, id), "habit.unarchive", <<>>)

DoEntryList ==
    \E u \in Users, qp \in EntryQueryParams :
        \E body \in EntryListBodies(Store, u, qp) :
            Apply(Result(Store, "OK"), "entry.list", body)

DoEntryCreate ==
    /\ nextEntryId <= MaxEntries
    /\ \E u \in Users, data \in EntryCompletePayloads :
           Apply(EntryCreate(Store, u, data), "entry.create", <<>>)

DoEntryRetrieve ==
    \E u \in Users, id \in EntryIdInputs, qp \in DetailQueryParams :
        Apply(EntryRetrieve(Store, u, id, qp), "entry.retrieve", <<>>)

DoEntryUpdate ==
    \E u \in Users, id \in EntryIdInputs, qp \in DetailQueryParams :
        IF EntryGetObject(Store, u, id, qp) # "Found"
        THEN Apply(EntryUpdate(Store, u, id, qp, <<>>), "entry.update", <<>>)
        ELSE \E data \in EntryCompletePayloads :
                 Apply(EntryUpdate(Store, u, id, qp, data), "entry.update", <<>>)

DoEntryPartialUpdate ==
    \E u \in Users, id \in EntryIdInputs, qp \in DetailQueryParams :
        IF EntryGetObject(Store, u, id, qp) # "Found"
        THEN Apply(EntryUpdate(Store, u, id, qp, <<>>), "entry.partial_update", <<>>)
        ELSE \E data \in EntryPartialPayloads :
                 Apply(EntryUpdate(Store, u, id, qp, data), "entry.partial_update", <<>>)

DoEntryDestroy ==
    \E u \in Users, id \in EntryIdInputs, qp \in DetailQueryParams :
        Apply(EntryDestroy(Store, u, id, qp), "entry.destroy", <<>>)

HabitRequests ==
    \/ DoHabitList
    \/ DoHabitCreate
    \/ DoHabitRetrieve
    \/ DoHabitUpdate
    \/ DoHabitPartialUpdate
    \/ DoHabitDestroy
    \/ DoHabitArchive
    \/ DoHabitUnarchive

EntryRequests ==
    \/ DoEntryList
    \/ DoEntryCreate
    \/ DoEntryRetrieve
    \/ DoEntryUpdate
    \/ DoEntryPartialUpdate
    \/ DoEntryDestroy

Next == Tick \/ HabitRequests \/ EntryRequests

Spec == Init /\ [][Next]_vars

(* The habit table under every habit request and the clock: no entry     *)
(* handler writes a Habit row, so these are the habit tables of Spec.    *)
NextHabits == Tick \/ HabitRequests
SpecHabits == Init /\ [][NextHabits]_vars

(* Every request of both viewsets, the clock standing still: no entry    *)
(* handler reads the clock or a timestamp other than archived_at being   *)
(* null or not.                                                          *)
NextRequests == HabitRequests \/ EntryRequests
SpecRequests == Init /\ [][NextRequests]_vars

(* ============================== the claims ============================ *)
(* The handlers are functions of the store, the clock and the request,   *)
(* so a claim about every request is stated over every request that      *)
(* could be made in a reachable state.                                   *)

NotFound == Result(Store, "NotFound")
MissingHabitId == MaxHabits + 1
MissingEntryId == MaxEntries + 1
Range(f) == {f[i] : i \in DOMAIN f}
TypeRuleViolated(type, value) ==
    \/ type = SINGULAR /\ value # 1
    \/ type = TIMED /\ value <= 0

(* every single-object habit request of u on id answers NotFound and    *)
(* leaves the store as it was                                            *)
HabitDetailAllNotFound(u, id) ==
    /\ HabitRetrieve(Store, u, id) = NotFound
    /\ HabitDestroy(Store, u, id) = NotFound
    /\ HabitArchive(Store, now, u, id) = NotFound
    /\ HabitUnarchive(Store, now, u, id) = NotFound
    /\ \A d \in HabitPayloads, partial \in BOOLEAN :
           HabitUpdate(Store, now, u, id, d, partial) = NotFound

(* the same for the single-object entry requests, under any query string *)
EntryDetailAllNotFound(u, id) ==
    \A qp \in DetailQueryParams :
        /\ EntryRetrieve(Store, u, id, qp) = NotFound
        /\ EntryDestroy(Store, u, id, qp) = NotFound
        /\ \A d \in EntryCompletePayloads \cup EntryPartialPayloads :
               EntryUpdate(Store, u, id, qp, d) = NotFound

(* C1: every stored entry satisfies the type rule against its habit's     *)
(* current type: value = 1 under SINGULAR, value > 0 under TIMED.         *)
C1_EntriesSatisfyTypeRule ==
    \A e \in DOMAIN entries :
        /\ entries[e].habit \in DOMAIN habits
        /\ ~TypeRuleViolated(habits[entries[e].habit].type, entries[e].value)

(* C2: every single-object request by a user on a habit or an entry of    *)
(* another user answers NotFound and leaves the store as it was, exactly  *)
(* as the same request on an id that does not exist.                      *)
C2_ForeignIsNotFound ==
    \A u \in Users :
        /\ HabitDetailAllNotFound(u, MissingHabitId)
        /\ EntryDetailAllNotFound(u, MissingEntryId)
        /\ \A id \in DOMAIN habits :
               habits[id].user # u => HabitDetailAllNotFound(u, id)
        /\ \A id \in DOMAIN entries :
               entries[id].user # u => EntryDetailAllNotFound(u, id)

C2_Witness ==
    /\ response.op \in {"habit.archive", "habit.partial_update", "habit.destroy"}
    /\ response.status = "NotFound"
    /\ DOMAIN habits = HabitIdInputs
    /\ \E owner \in Users : \A id \in DOMAIN habits : habits[id].user = owner

TruthyParams == {<<"t", "r", "u", "e">>, <<"T", "R", "U", "E">>, <<"1">>}
FalsyParams == {<<"f", "a", "l", "s", "e">>, <<"F", "a", "l", "s", "e">>, <<"0">>}
MineActive(u) == {id \in DOMAIN habits : habits[id].user = u /\ habits[id].archived_at = None}
MineArchived(u) == {id \in DOMAIN habits : habits[id].user = u /\ habits[id].archived_at # None}

(* C3 as stated: the list holds the caller's habits only; active ones     *)
(* without the archived option, archived ones for true/1, active ones for *)
(* false/0, and active ones for any other value of the option.            *)
C3_OtherValueListsActive ==
    \A u \in Users, qp \in HabitQueryParams :
        \A body \in HabitListBodies(Store, u, qp) :
            Range(body) =
                IF "archived" \in DOMAIN qp /\ qp.archived \in TruthyParams
                THEN MineArchived(u)
                ELSE MineActive(u)

(* C3 amended: as stated for an absent option, true/1 and false/0; any    *)
(* other value of the option applies no archived filter, and the list     *)
(* holds all of the caller's habits, archived and active.                 *)
C3_OtherValueListsAll ==
    \A u \in Users, qp \in HabitQueryParams :
        \A body \in HabitListBodies(Store, u, qp) :
            Range(body) =
                IF "archived" \notin DOMAIN qp THEN MineActive(u)
                ELSE IF qp.archived \in TruthyParams THEN MineArchived(u)
                ELSE IF qp.archived \in FalsyParams THEN MineActive(u)
                ELSE MineActive(u) \cup MineArchived(u)

C3_Witness ==
    /\ response.op = "habit.list"
    /\ response.status = "OK"
    /\ \E i, j \in DOMAIN response.body :
           /\ {response.body[i], response.body[j]} \subseteq DOMAIN habits
           /\ habits[response.body[i]].archived_at = None
           /\ habits[response.body[j]].archived_at # None

(* C4: archived_at of an existing habit changes only by archive (null to  *)
(* the current time) and by unarchive (non-null to null); every other     *)
(* request on an existing habit, update and partial update with any       *)
(* payload included, leaves archived_at as it was.                        *)
C4_ArchivedAtOnlyByTransitions ==
    [][ \A id \in (DOMAIN habits) \cap (DOMAIN habits') :
               habits'[id].archived_at # habits[id].archived_at =>
                   \/ /\ response'.op = "habit.archive"
                      /\ habits[id].archived_at = None
                      /\ habits'[id].archived_at = <<now>>
                   \/ /\ response'.op = "habit.unarchive"
                      /\ habits[id].archived_at # None
                      /\ habits'[id].archived_at = None ]_vars

(* the fields of a habit a client sees, without updated_at *)
Visible(row) == [user |-> row.user, name |-> row.name, type |-> row.type,
                 archived_at |-> row.archived_at]

LaterTimes == now..MaxTime

(* C5 as stated: on a habit of the caller, archive of an archived habit   *)
(* keeps archived_at; unarchive of an active habit keeps it null; archive *)
(* then unarchive of an active habit gives archived_at null and every     *)
(* other client-visible field as it was.                                  *)
C5_ArchiveUnarchiveRestoresRow ==
    \A id \in DOMAIN habits :
        LET u == habits[id].user
        IN  /\ habits[id].archived_at # None =>
                   \A t \in LaterTimes :
                       HabitArchive(Store, t, u, id).store.habits[id].archived_at
                           = habits[id].archived_at
            /\ habits[id].archived_at = None =>
                   /\ \A t \in LaterTimes :
                          HabitUnarchive(Store, t, u, id).store.habits[id].archived_at = None
                   /\ \A t1 \in LaterTimes : \A t2 \in t1..MaxTime :
                          LET s1 == HabitArchive(Store, t1, u, id).store
                              s2 == HabitUnarchive(s1, t2, u, id).store
                          IN  /\ s1.habits[id].archived_at = <<t1>>
                              /\ s2.habits[id] = habits[id]

(* C5 amended: the same, with every other client-visible field except     *)
(* updated_at as it was.                                                  *)
C5_ArchiveUnarchiveIdempotent ==
    \A id \in DOMAIN habits :
        LET u == habits[id].user
        IN  /\ habits[id].archived_at # None =>
                   \A t \in LaterTimes :
                       HabitArchive(Store, t, u, id).store.habits[id].archived_at
                           = habits[id].archived_at
            /\ habits[id].archived_at = None =>
                   /\ \A t \in LaterTimes :
                          HabitUnarchive(Store, t, u, id).store.habits[id].archived_at = None
                   /\ \A t1 \in LaterTimes : \A t2 \in t1..MaxTime :
                          LET s1 == HabitArchive(Store, t1, u, id).store
                              s2 == HabitUnarchive(s1, t2, u, id).store
                          IN  /\ s1.habits[id].archived_at = <<t1>>
                              /\ Visible(s2.habits[id]) = Visible(habits[id])

C5_Witness ==
    /\ response.op = "habit.archive"
    /\ response.status = "OK"
    /\ \E id \in DOMAIN habits :
           /\ DOMAIN habits = {id}
           /\ habits[id].archived_at # None
           /\ habits[id].archived_at[1] < response.at

(* C6 as stated: an entry create on a habit whose archived_at is not null *)
(* is rejected with InvalidState and stores nothing, whatever the value   *)
(* and date; so an entry is only ever created on an active habit.         *)
C6_ArchivedIsInvalidState ==
    \A u \in Users, data \in EntryCompletePayloads :
        data.habit \in DOMAIN habits =>
            /\ habits[data.habit].archived_at # None =>
                   EntryCreate(Store, u, data) = Result(Store, "InvalidState")
            /\ EntryCreate(Store, u, data).status = "Created" =>
                   habits[data.habit].archived_at = None

(* C6 amended: an entry create on an archived habit of the caller is      *)
(* rejected with InvalidState, on an archived habit of another user with  *)
(* Forbidden; either way nothing is stored, whatever the value and date;  *)
(* so an entry is only ever created on an active habit.                   *)
C6_ArchivedIsRejected ==
    \A u \in Users, data \in EntryCompletePayloads :
        data.habit \in DOMAIN habits =>
            /\ habits[data.habit].archived_at # None =>
                   EntryCreate(Store, u, data) =
                       Result(Store,
                              IF habits[data.habit].user = u
                              THEN "InvalidState" ELSE "Forbidden")
            /\ EntryCreate(Store, u, data).status = "Created" =>
                   habits[data.habit].archived_at = None

C6_Witness ==
    /\ response.op = "entry.create"
    /\ response.status = "InvalidState"
    /\ \E id \in DOMAIN habits : habits[id].archived_at # None

(* C7: every stored entry's owner is the owner of the habit it references *)
(* and the user whose request created it; an owner sent in the payload is *)
(* ignored and no update changes the owner.                               *)
C7_EntryOwnerIsHabitOwner ==
    /\ \A e \in DOMAIN entries :
           /\ entries[e].habit \in DOMAIN habits
           /\ entries[e].user = habits[entries[e].habit].user
           /\ entries[e].user = creator[e]
    /\ \A u \in Users, data \in EntryCompletePayloads :
           LET r == EntryCreate(Store, u, data)
           IN  r.status = "Created" => r.store.entries[nextEntryId].user = u
    /\ \A e \in DOMAIN entries :
           \A d \in EntryCompletePayloads \cup EntryPartialPayloads :
               LET r == EntryUpdate(Store, entries[e].user, e, <<>>, d)
               IN  r.store.entries[e].user = entries[e].user

C7_Witness ==
    /\ response.op = "entry.update"
    /\ response.status = "OK"
    /\ \E e \in DOMAIN entries : \E h \in DOMAIN habits : habits[h].user # entries[e].user

(* C8: an entry create fails when an entry with the same habit and the    *)
(* same entry_date is stored, so no two stored entries share both.        *)
C8_DuplicateCreateFails ==
    \A u \in Users, data \in EntryCompletePayloads :
        (\E e \in DOMAIN entries :
             /\ entries[e].habit = data.habit
             /\ entries[e].entry_date = data.entry_date)
            => EntryCreate(Store, u, data).status # "Created"

(* the habit a write is checked against, and the value *)
EffectiveHabit(data, old) == IF "habit" \in DOMAIN data THEN data.habit ELSE old.habit
EffectiveValue(data, old) == IF "value" \in DOMAIN data THEN data.value ELSE old.value
(* the habit sent in a payload, if any, exists, is the caller's and is active *)
HabitFieldPasses(u, data) ==
    "habit" \in DOMAIN data =>
        /\ data.habit \in DOMAIN habits
        /\ habits[data.habit].user = u
        /\ habits[data.habit].archived_at = None
CreateOutcomeFollowsTypeRule ==
    \A u \in Users, data \in EntryCompletePayloads :
        (/\ data.habit \in DOMAIN habits
         /\ habits[data.habit].user = u
         /\ habits[data.habit].archived_at = None)
            => (EntryCreate(Store, u, data).status = "Created"
                    <=> ~TypeRuleViolated(habits[data.habit].type, data.value))

(* a write as stated: a breach of the type rule by the effective pair is *)
(* answered ValidationFailed and leaves the store as it was              *)
BreachIsValidationFailed(data, old, r) ==
    (/\ EffectiveHabit(data, old) \in DOMAIN habits
     /\ TypeRuleViolated(habits[EffectiveHabit(data, old)].type, EffectiveValue(data, old)))
        => r = Result(Store, "ValidationFailed")

(* a write as amended: the habit check of the payload comes first *)
CheckedAfterHabit(u, data, old, r) ==
    IF HabitFieldPasses(u, data)
    THEN IF TypeRuleViolated(habits[EffectiveHabit(data, old)].type,
                             EffectiveValue(data, old))
         THEN r = Result(Store, "ValidationFailed")
         ELSE r.status \in {"Created", "OK"}
    ELSE /\ r.store = Store
         /\ r.status =
                IF data.habit \notin DOMAIN habits THEN "ValidationFailed"
                ELSE IF habits[data.habit].user # u THEN "Forbidden"
                ELSE "InvalidState"

(* C9 as stated: every entry write (create, update, partial update) whose *)
(* effective habit and value break the type rule is rejected with         *)
(* ValidationFailed and leaves the store as it was; a create on an active *)
(* habit of the caller succeeds iff the value keeps the rule.             *)
C9_TypeRuleBreachIsValidationFailed ==
    /\ \A u \in Users, d \in EntryCompletePayloads :
           BreachIsValidationFailed(d, d, EntryCreate(Store, u, d))
    /\ \A e \in DOMAIN entries :
           \A d \in EntryCompletePayloads \cup EntryPartialPayloads :
               BreachIsValidationFailed(
                   d, entries[e], EntryUpdate(Store, entries[e].user, e, <<>>, d))
    /\ CreateOutcomeFollowsTypeRule

(* C9 amended: every entry write whose payload habit, if any, exists, is  *)
(* the caller's and is active is rejected with ValidationFailed iff its   *)
(* effective habit and value break the type rule, and succeeds otherwise; *)
(* a write whose payload habit fails that check is rejected by it first   *)
(* (Forbidden, InvalidState, or ValidationFailed for an unknown id); a    *)
(* rejected write leaves the store as it was; a create on an active habit *)
(* of the caller succeeds iff the value keeps the rule.                   *)
C9_TypeRuleCheckedAfterHabit ==
    /\ \A u \in Users, d \in EntryCompletePayloads :
           CheckedAfterHabit(u, d, d, EntryCreate(Store, u, d))
    /\ \A e \in DOMAIN entries :
           \A d \in EntryCompletePayloads \cup EntryPartialPayloads :
               CheckedAfterHabit(entries[e].user, d, entries[e],
                                 EntryUpdate(Store, entries[e].user, e, <<>>, d))
    /\ CreateOutcomeFollowsTypeRule

(* every habit id a payload can carry exists, so the rejection is the    *)
(* type rule's                                                           *)
C9_Witness ==
    /\ response.op = "entry.partial_update"
    /\ response.status = "ValidationFailed"
    /\ DOMAIN entries # {}
    /\ DOMAIN habits = HabitIdInputs

(* C10: entry creation reports the first failing check in the order       *)
(* owner, archived, value: Forbidden for a habit of another user even if  *)
(* it is archived or the value is bad; else InvalidState for an archived  *)
(* habit even if the value is bad; else ValidationFailed for a value that *)
(* breaks the type rule; nothing is stored in any of the three cases.     *)
C10_FirstFailingCheck ==
    \A u \in Users, data \in EntryCompletePayloads :
        data.habit \in DOMAIN habits =>
            LET h == habits[data.habit]
                r == EntryCreate(Store, u, data)
            IN  /\ h.user # u => r = Result(Store, "Forbidden")
                /\ (h.user = u /\ h.archived_at # None)
                       => r = Result(Store, "InvalidState")
                /\ (h.user = u /\ h.archived_at = None
                        /\ TypeRuleViolated(h.type, data.value))
                       => r = Result(Store, "ValidationFailed")

C10_Witness ==
    /\ response.op = "entry.create"
    /\ response.status = "Forbidden"
    /\ DOMAIN habits # {}
    /\ \A id \in DOMAIN habits : habits[id].archived_at # None

====
